---- MODULE Spec2Model ----
(***************************************************************************)
(* Model of the Raspberry Pi print server (print_server.py, config.py).    *)
(*                                                                         *)
(* Text that the program parses (file names, form fields, header values,   *)
(* the stdout of lp and lpstat) is a sequence of one-character strings, so *)
(* that the Python string routines are computed character by character.    *)
(* Text that the program only copies (stderr, exception messages, the      *)
(* fixed response messages) is a TLA+ string.                              *)
(* An optional value is <<>> (Python None) or <<v>>.                       *)
(***************************************************************************)
EXTENDS Integers, Sequences, FiniteSets, TLC

VARIABLES
    cfg,           \* the Config class: API_KEY, PRINTER_NAME
    pc,            \* pc[r]: where request r's handler stands
    req,           \* req[r]: the HTTP request being handled
    copies,        \* print_endpoint's local `copies`
    printer,       \* print_image's local `printer`
    tmp_name,      \* tmp.name of the NamedTemporaryFile, <<>> before it exists
    lpstat_result, \* what the lpstat query of this request did, <<>> if none ran
    lp_result,     \* what the lp run of this request did, <<>> if none ran
    calls,         \* calls[r]: the subprocess command lines request r has spawned
    resp,          \* resp[r]: the HTTP response, status 0 before there is one
    fs             \* the temporary directory: the names of the files that exist

vars == <<cfg, pc, req, copies, printer, tmp_name, lpstat_result, lp_result, calls, resp, fs>>

(***************************************************************************)
(* Bounds of the model.                                                    *)
(***************************************************************************)
NProcs == 2          \* concurrent request handlers (worker threads)
MaxFiles == 2        \* names available in the temporary directory
MaxCopiesLen == 2    \* longest 'copies' form field

Procs == 1..NProcs
Names == 1..MaxFiles

None == <<>>
Some(v) == <<v>>

(***************************************************************************)
(* Python string routines.                                                 *)
(***************************************************************************)
Whitespace == {" ", "\n", "\t"}

MinOf(S) == CHOOSE x \in S : \A y \in S : x <= y
MaxOf(S) == CHOOSE x \in S : \A y \in S : y <= x

\* s.find(pat) + 1: the first position where pat occurs in s, 0 if none
Find(s, pat) ==
    LET hits == {i \in 1..(Len(s) - Len(pat) + 1) :
                    SubSeq(s, i, i + Len(pat) - 1) = pat}
    IN  IF hits = {} THEN 0 ELSE MinOf(hits)

\* pat in s
Contains(s, pat) == Find(s, pat) # 0

\* s.split(sep), sep not empty
RECURSIVE split(_, _)
split(s, sep) ==
    LET i == Find(s, sep)
    IN  IF i = 0
        THEN <<s>>
        ELSE <<SubSeq(s, 1, i - 1)>> \o split(SubSeq(s, i + Len(sep), Len(s)), sep)

\* s.rsplit(sep, 1), sep a single character
rsplit1(s, sep) ==
    LET dots == {i \in 1..Len(s) : s[i] = sep}
    IN  IF dots = {}
        THEN <<s>>
        ELSE <<SubSeq(s, 1, MaxOf(dots) - 1), SubSeq(s, MaxOf(dots) + 1, Len(s))>>

RECURSIVE lstrip(_)
lstrip(s) == IF s # <<>> /\ Head(s) \in Whitespace THEN lstrip(Tail(s)) ELSE s

RECURSIVE rstrip(_)
rstrip(s) ==
    IF s # <<>> /\ s[Len(s)] \in Whitespace THEN rstrip(SubSeq(s, 1, Len(s) - 1)) ELSE s

\* s.strip()
strip(s) == rstrip(lstrip(s))

\* s.split() with no separator: the whitespace-delimited tokens of s
RECURSIVE tokens(_)
tokens(s) ==
    LET t == lstrip(s)
        ws == {i \in 1..Len(t) : t[i] \in Whitespace}
        n == IF ws = {} THEN Len(t) + 1 ELSE MinOf(ws)
    IN  IF t = <<>>
        THEN <<>>
        ELSE <<SubSeq(t, 1, n - 1)>> \o tokens(SubSeq(t, n, Len(t)))

\* s.startswith(pat)
startswith(s, pat) == Len(pat) <= Len(s) /\ SubSeq(s, 1, Len(pat)) = pat

\* the upper-case letters that occur in the file names of the model
LowerChar(c) ==
    CASE c = "P" -> "p" [] c = "N" -> "n" [] c = "G" -> "g"
      [] c = "J" -> "j" [] c = "T" -> "t" [] c = "X" -> "x"
      [] OTHER -> c

\* s.lower()
lower(s) == [i \in 1..Len(s) |-> LowerChar(s[i])]

Digits == {"0", "1", "2", "3", "4", "5", "6", "7", "8", "9"}

DigitVal(c) ==
    CASE c = "0" -> 0 [] c = "1" -> 1 [] c = "2" -> 2 [] c = "3" -> 3 [] c = "4" -> 4
      [] c = "5" -> 5 [] c = "6" -> 6 [] c = "7" -> 7 [] c = "8" -> 8 [] c = "9" -> 9

RECURSIVE DigitsVal(_)
DigitsVal(s) ==
    IF s = <<>> THEN 0
    ELSE IF s[Len(s)] = "_" THEN DigitsVal(SubSeq(s, 1, Len(s) - 1))
    ELSE 10 * DigitsVal(SubSeq(s, 1, Len(s) - 1)) + DigitVal(s[Len(s)])

\* int(s) of a str: surrounding whitespace is ignored, then an optional sign and
\* decimal digits, single underscores allowed between digits; anything else is a
\* ValueError (ok = FALSE)
int(s) ==
    LET t == strip(s)
        signed == t # <<>> /\ Head(t) \in {"+", "-"}
        body == IF signed THEN Tail(t) ELSE t
        wellFormed ==
            /\ body # <<>>
            /\ \A i \in 1..Len(body) : body[i] \in Digits \cup {"_"}
            /\ body[1] # "_" /\ body[Len(body)] # "_"
            /\ \A i \in 1..(Len(body) - 1) : ~(body[i] = "_" /\ body[i + 1] = "_")
    IN  IF wellFormed
        THEN [ok |-> TRUE,
              val |-> IF signed /\ Head(t) = "-" THEN 0 - DigitsVal(body)
                      ELSE DigitsVal(body)]
        ELSE [ok |-> FALSE, val |-> 0]

DigitChar(d) ==
    CASE d = 0 -> "0" [] d = 1 -> "1" [] d = 2 -> "2" [] d = 3 -> "3" [] d = 4 -> "4"
      [] d = 5 -> "5" [] d = 6 -> "6" [] d = 7 -> "7" [] d = 8 -> "8" [] d = 9 -> "9"

\* str(n) of an int
RECURSIVE str(_)
str(n) ==
    IF n < 0 THEN <<"-">> \o str(0 - n)
    ELSE IF n < 10 THEN <<DigitChar(n)>>
    ELSE str(n \div 10) \o <<DigitChar(n % 10)>>

\* a character outside ASCII is written by its code point, e.g. "U+00E9"
IsAscii(s) == \A i \in 1..Len(s) : Len(s[i]) = 1

(***************************************************************************)
(* Configuration (config.py) and module constants.                         *)
(***************************************************************************)
MAX_COPIES == 10

PRINT_OPTIONS == <<"fit-to-page", "media=A4.Borderless">>

ALLOWED_EXTENSIONS ==
    { <<"p", "n", "g">>, <<"j", "p", "g">>, <<"j", "p", "e", "g">>,
      <<"g", "i", "f">>, <<"b", "m", "p">>, <<"w", "e", "b", "p">> }

\* the values PRINT_API_KEY and PRINTER_NAME are given in the environment
ApiKeys == { <<"k", "e", "y">> }
PrinterNames == { <<>>, <<"E", "P">> }

DefaultMarker ==
    <<"s", "y", "s", "t", "e", "m", " ", "d", "e", "f", "a", "u", "l", "t", " ",
      "d", "e", "s", "t", "i", "n", "a", "t", "i", "o", "n", ":">>

RequestIdMarker == <<"r", "e", "q", "u", "e", "s", "t", " ", "i", "d", " ", "i", "s">>

PrinterMarker == <<"p", "r", "i", "n", "t", "e", "r", " ">>

(***************************************************************************)
(* Pure functions of print_server.py.                                      *)
(***************************************************************************)
\* allowed_file taking the text after the first period instead of the last
allowed_file_first_period(filename) ==
    /\ Contains(filename, <<".">>)
    /\ lower(split(filename, <<".">>)[2]) \in ALLOWED_EXTENSIONS

allowed_file(filename) ==
    /\ Contains(filename, <<".">>)
    /\ lower(rsplit1(filename, ".")[2]) \in ALLOWED_EXTENSIONS

\* secrets.compare_digest on two str: a TypeError unless both are ASCII
compare_digest(a, b) ==
    IF IsAscii(a) /\ IsAscii(b)
    THEN [raised |-> FALSE, equal |-> a = b]
    ELSE [raised |-> TRUE, equal |-> FALSE]

\* Python truth value of an optional string: None and '' are false
Truthy(opt) == opt # None /\ opt[1] # <<>>

\* get_printer_name, given what `lpstat -d` did (not looked at when a name is pinned)
get_printer_name(out) ==
    IF cfg.PRINTER_NAME # <<>>
    THEN Some(cfg.PRINTER_NAME)
    ELSE IF /\ out.kind = "exit"
            /\ out.returncode = 0
            /\ Contains(out.stdout, DefaultMarker)
         THEN Some(strip(split(out.stdout, DefaultMarker)[2]))
         ELSE None

\* the clamp without its lower bound
clamp_copies_no_floor(n) == IF n < MAX_COPIES THEN n ELSE MAX_COPIES

\* copies = max(1, min(copies, Config.MAX_COPIES))
clamp_copies(n) ==
    LET m == IF n < MAX_COPIES THEN n ELSE MAX_COPIES
    IN  IF m > 1 THEN m ELSE 1

\* int(request.form.get('copies', 1)), clamped; 1 on ValueError
parse_copies(field) ==
    IF field = None THEN clamp_copies(1)
    ELSE IF int(field[1]).ok THEN clamp_copies(int(field[1]).val)
    ELSE 1

\* the lp command line built by print_image
lp_cmd(dest, n, image_path) ==
    [prog |-> "lp", d |-> dest, n |-> str(n), o |-> PRINT_OPTIONS, path |-> image_path]

\* print_image without the test of result.returncode
print_image_result_any_exit(out) ==
    IF out.kind = "timeout"
    THEN [success |-> FALSE, message |-> "Print command timed out", job_id |-> None]
    ELSE IF out.kind = "error"
    THEN [success |-> FALSE, message |-> "Print error: " \o out.error, job_id |-> None]
    ELSE [success |-> TRUE, message |-> "Print job submitted successfully",
          job_id |-> None]

\* what print_image returns once subprocess.run(cmd) has returned or raised:
\* (success, message, job_id)
print_image_result(out) ==
    IF out.kind = "timeout"
    THEN [success |-> FALSE, message |-> "Print command timed out", job_id |-> None]
    ELSE IF out.kind = "error"
    THEN [success |-> FALSE, message |-> "Print error: " \o out.error, job_id |-> None]
    ELSE IF out.returncode # 0
    THEN [success |-> FALSE, message |-> "Print failed: " \o out.stderr, job_id |-> None]
    ELSE IF ~Contains(out.stdout, RequestIdMarker)
    THEN [success |-> TRUE, message |-> "Print job submitted successfully",
          job_id |-> None]
    ELSE IF tokens(split(out.stdout, RequestIdMarker)[2]) = <<>>
    THEN \* .split()[0] of a blank remainder: IndexError, caught by `except Exception`
         [success |-> FALSE, message |-> "Print error: list index out of range",
          job_id |-> None]
    ELSE [success |-> TRUE, message |-> "Print job submitted successfully",
          job_id |-> Some(tokens(split(out.stdout, RequestIdMarker)[2])[1])]

\* the loop of list_printers over the lines of stdout
RECURSIVE parse_printers(_, _)
parse_printers(lines, acc) ==
    IF lines = <<>> THEN acc
    ELSE LET line == Head(lines)
             next ==
                 IF startswith(line, PrinterMarker)
                 THEN IF Len(tokens(line)) >= 2
                      THEN [acc EXCEPT !.printers = Append(@, tokens(line)[2])]
                      ELSE acc
                 ELSE IF Contains(line, DefaultMarker)
                 THEN [acc EXCEPT !.default = Some(strip(split(line, DefaultMarker)[2]))]
                 ELSE acc
         IN  parse_printers(Tail(lines), next)

(***************************************************************************)
(* Inputs: requests, and what the spawned commands and the file system do. *)
(***************************************************************************)
SeqsUpTo(S, n) == UNION {[1..k -> S] : k \in 0..n}

Headers ==
    { None,                              \* no X-API-Key header
      Some(<<>>),                        \* X-API-Key:
      Some(<<"k", "e", "y">>),
      Some(<<"k", "e", "x">>),
      Some(<<"k", "e", "y", "s">>),
      Some(<<"k", "U+00E9", "y">>) }     \* a header value with a non-ASCII character

Filenames ==
    { <<>>,
      <<"a">>,
      <<"p", "n", "g">>,
      <<"a", ".">>,
      <<".", "g", "i", "f">>,
      <<"a", ".", "p", "n", "g">>,
      <<"a", ".", "P", "N", "G">>,
      <<"a", ".", "t", "x", "t">>,
      <<"a", ".", "p", "n", "g", "x">>,
      <<"a", ".", "p", "n", "g", ".", "t", "x", "t">>,
      <<"a", ".", "t", "x", "t", ".", "p", "n", "g">> }

CopiesChars == {"0", "1", "9", "-", "x"}
CopiesFields == {None} \cup {Some(s) : s \in SeqsUpTo(CopiesChars, MaxCopiesLen)}

Request(e, k, i, c) == [endpoint |-> e, api_key |-> k, image |-> i, copies |-> c]
NoRequest == Request("", None, None, None)

Requests ==
    {Request("/health", k, None, None) : k \in Headers}
    \cup {Request("/printers", k, None, None) : k \in Headers}
    \cup {Request("/print", k, i, c) :
            k \in Headers, i \in {None} \cup {Some(f) : f \in Filenames},
            c \in CopiesFields}

\* what subprocess.run did: the child exited, the timeout expired, or another
\* exception was raised (the command is missing, fork failed, ...)
Exited(rc, out, err) ==
    [kind |-> "exit", returncode |-> rc, stdout |-> out, stderr |-> err, error |-> ""]
TimedOut ==
    [kind |-> "timeout", returncode |-> 0, stdout |-> <<>>, stderr |-> "", error |-> ""]
Raised(e) ==
    [kind |-> "error", returncode |-> 0, stdout |-> <<>>, stderr |-> "", error |-> e]

NL == <<"\n">>
HP == <<"H", "P">>

LpstatDOutcomes ==
    {Exited(rc, out, "") :
        rc \in {0, 1},
        out \in { DefaultMarker \o <<" ">> \o HP \o NL,
                  <<"n", "o", " ">> \o SubSeq(DefaultMarker, 1, 26) \o NL,
                  DefaultMarker \o <<" ">> \o NL,
                  <<>> }}
    \cup {TimedOut, Raised("[Errno 2] No such file or directory: 'lpstat'")}

LpOutcomes ==
    {Exited(0, out, "") :
        out \in { RequestIdMarker \o <<" ", "P", "R", "1", "-", "4", "2", " ",
                                       "(", "1", " ", "f", "i", "l", "e", "(", "s", ")", ")">>
                                  \o NL,
                  <<"x", " ">> \o RequestIdMarker \o <<"H", "P", "-", "7">>,
                  RequestIdMarker \o NL,
                  RequestIdMarker,
                  <<"o", "k">> \o NL,
                  <<>> }}
    \cup {Exited(1, <<>>, err) : err \in {"no such printer", ""}}
    \cup {Exited(1, RequestIdMarker \o <<" ", "X">>, "lp: Error")}
    \cup {TimedOut, Raised("[Errno 2] No such file or directory: 'lp'")}

LpstatPOutcomes ==
    {Exited(rc, out, err) :
        rc \in {0, 1},
        out \in { PrinterMarker \o HP \o <<" ", "i", "s", " ", "i", "d", "l", "e">> \o NL
                      \o DefaultMarker \o <<" ">> \o HP \o NL,
                  PrinterMarker \o HP \o NL \o PrinterMarker \o HP \o NL
                      \o PrinterMarker \o NL,
                  <<>> },
        err \in {"", "lpstat: Bad file descriptor"}}
    \cup {TimedOut, Raised("[Errno 2] No such file or directory: 'lpstat'")}

\* the requests and outcomes of the concurrent specification
ConcRequests ==
    {Request("/print", Some(<<"k", "e", "y">>), Some(f), None) :
        f \in {<<"a", ".", "p", "n", "g">>, <<"a", ".", "t", "x", "t">>}}
ConcLpstatDOutcomes == {Exited(0, DefaultMarker \o <<" ">> \o HP \o NL, ""), TimedOut}
ConcLpOutcomes ==
    {Exited(0, RequestIdMarker \o <<" ", "H", "P", "-", "7">>, ""),
     Exited(1, <<>>, "no such printer"), TimedOut}

(***************************************************************************)
(* Responses.                                                              *)
(***************************************************************************)
Response(code, body) == [status |-> code, body |-> body, unhandled |-> FALSE]
NoResponse == Response(0, [none |-> TRUE])

\* an exception that leaves the view function: Flask answers 500 itself
Unhandled(exc) ==
    [status |-> 500, body |-> [html |-> "Internal Server Error", exception |-> exc],
     unhandled |-> TRUE]

(***************************************************************************)
(* The state machine.                                                      *)
(***************************************************************************)
Init ==
    /\ cfg \in [API_KEY : ApiKeys, PRINTER_NAME : PrinterNames]
    /\ pc = [r \in Procs |-> "idle"]
    /\ req = [r \in Procs |-> NoRequest]
    /\ copies = [r \in Procs |-> 0]
    /\ printer = [r \in Procs |-> None]
    /\ tmp_name = [r \in Procs |-> None]
    /\ lpstat_result = [r \in Procs |-> None]
    /\ lp_result = [r \in Procs |-> None]
    /\ calls = [r \in Procs |-> <<>>]
    /\ resp = [r \in Procs |-> NoResponse]
    /\ fs = {}

\* temporary names chosen without looking at the files that exist
FreshNames_any(files) == Names

\* the names NamedTemporaryFile can give a new file: it opens with O_EXCL, so
\* never the name of a file that exists
FreshNames(files) == Names \ files

\* a worker takes a request and routes it: /health goes to its view function,
\* /print and /printers to the require_api_key wrapper
receive(r, Reqs) ==
    /\ pc[r] = "idle"
    /\ \E q \in Reqs :
        /\ req' = [req EXCEPT ![r] = q]
        /\ pc' = [pc EXCEPT ![r] =
                    IF q.endpoint = "/health" THEN "health_check" ELSE "require_api_key"]
    /\ UNCHANGED <<cfg, copies, printer, tmp_name, lpstat_result, lp_result, calls,
                   resp, fs>>

\* decorated(): 401 without a key, 403 on a wrong one, else the wrapped function
require_api_key(r) ==
    /\ pc[r] = "require_api_key"
    /\ LET api_key == req[r].api_key
           cmp == compare_digest(api_key[1], cfg.API_KEY)
           handler == IF req[r].endpoint = "/print"
                      THEN "print_endpoint" ELSE "list_printers"
       IN  IF ~Truthy(api_key)
           THEN /\ resp' = [resp EXCEPT ![r] =
                                Response(401, [error |-> "Missing API key"])]
                /\ pc' = [pc EXCEPT ![r] = "done"]
           ELSE IF cmp.raised
           THEN /\ resp' = [resp EXCEPT ![r] = Unhandled("TypeError")]
                /\ pc' = [pc EXCEPT ![r] = "done"]
           ELSE IF ~cmp.equal
           THEN /\ resp' = [resp EXCEPT ![r] =
                                Response(403, [error |-> "Invalid API key"])]
                /\ pc' = [pc EXCEPT ![r] = "done"]
           ELSE /\ pc' = [pc EXCEPT ![r] = handler]
                /\ UNCHANGED resp
    /\ UNCHANGED <<cfg, req, copies, printer, tmp_name, lpstat_result, lp_result,
                   calls, fs>>

\* printer_configured taken from the pinned name alone
printer_configured_pinned(p) == cfg.PRINTER_NAME # <<>>

\* 'printer_configured': printer is not None
printer_configured(p) == p # None

\* GET /health
health_check(r, Outs) ==
    /\ pc[r] = "health_check"
    /\ \E out \in (IF cfg.PRINTER_NAME # <<>> THEN {TimedOut} ELSE Outs) :
        LET ran == cfg.PRINTER_NAME = <<>>
            p == get_printer_name(out)
        IN  /\ lpstat_result' = [lpstat_result EXCEPT ![r] =
                                    IF ran THEN Some(out) ELSE None]
            /\ calls' = [calls EXCEPT ![r] =
                            IF ran THEN Append(@, [prog |-> "lpstat", args |-> "-d"])
                            ELSE @]
            /\ resp' = [resp EXCEPT ![r] =
                            Response(200, [status |-> "ok", printer |-> p,
                                           printer_configured |-> printer_configured(p)])]
    /\ pc' = [pc EXCEPT ![r] = "done"]
    /\ UNCHANGED <<cfg, req, copies, printer, tmp_name, lp_result, fs>>

\* POST /print up to the temporary file: the checks of the upload, and the copies
print_endpoint(r) ==
    /\ pc[r] = "print_endpoint"
    /\ LET image == req[r].image
           reject(msg) ==
               /\ resp' = [resp EXCEPT ![r] = Response(400, [error |-> msg])]
               /\ pc' = [pc EXCEPT ![r] = "done"]
               /\ UNCHANGED copies
       IN  IF image = None THEN reject("No image file provided")
           ELSE IF image[1] = <<>> THEN reject("No file selected")
           ELSE IF ~allowed_file(image[1])
           THEN reject("File type not allowed. Allowed types: ...")
           ELSE /\ copies' = [copies EXCEPT ![r] = parse_copies(req[r].copies)]
                /\ pc' = [pc EXCEPT ![r] = "NamedTemporaryFile"]
                /\ UNCHANGED resp
    /\ UNCHANGED <<cfg, req, printer, tmp_name, lpstat_result, lp_result, calls, fs>>

\* tempfile.NamedTemporaryFile(delete=False, ...): a new, empty file
NamedTemporaryFile(r) ==
    /\ pc[r] = "NamedTemporaryFile"
    /\ \E f \in FreshNames(fs) :
        /\ tmp_name' = [tmp_name EXCEPT ![r] = Some(f)]
        /\ fs' = fs \cup {f}
    /\ pc' = [pc EXCEPT ![r] = "save"]
    /\ UNCHANGED <<cfg, req, copies, printer, lpstat_result, lp_result, calls, resp>>

\* file.save(tmp.name) inside the with block, which is not inside the try:
\* an OSError while writing leaves the handler with the file still there
save(r) ==
    /\ pc[r] = "save"
    /\ \/ /\ pc' = [pc EXCEPT ![r] = "print_image"]
          /\ UNCHANGED resp
       \/ /\ resp' = [resp EXCEPT ![r] = Unhandled("OSError")]
          /\ pc' = [pc EXCEPT ![r] = "done"]
    /\ UNCHANGED <<cfg, req, copies, printer, tmp_name, lpstat_result, lp_result,
                   calls, fs>>

\* the JSON response print_endpoint builds from what print_image returned
print_response(res, n) ==
    IF res.success
    THEN Response(200, [success |-> TRUE, message |-> res.message,
                        job_id |-> res.job_id, copies |-> n])
    ELSE Response(500, [success |-> FALSE, error |-> res.message])

\* the test `if printer is None` in place of `if not printer`
has_printer_not_none(p) == p # None

\* whether print_image goes on to lp with this printer: `if not printer: return`
has_printer(p) == Truthy(p)

\* print_image up to the lp command: the printer is resolved
print_image(r, Outs) ==
    /\ pc[r] = "print_image"
    /\ \E out \in (IF cfg.PRINTER_NAME # <<>> THEN {TimedOut} ELSE Outs) :
        LET ran == cfg.PRINTER_NAME = <<>>
            p == get_printer_name(out)
        IN  /\ lpstat_result' = [lpstat_result EXCEPT ![r] =
                                    IF ran THEN Some(out) ELSE None]
            /\ calls' = [calls EXCEPT ![r] =
                            IF ran THEN Append(@, [prog |-> "lpstat", args |-> "-d"])
                            ELSE @]
            /\ printer' = [printer EXCEPT ![r] = p]
            /\ IF has_printer(p)
               THEN /\ pc' = [pc EXCEPT ![r] = "lp"]
                    /\ UNCHANGED resp
               ELSE /\ resp' = [resp EXCEPT ![r] =
                                   print_response(
                                       [success |-> FALSE,
                                        message |-> "No printer configured or found",
                                        job_id |-> None], copies[r])]
                    /\ pc' = [pc EXCEPT ![r] = "finally"]
    /\ UNCHANGED <<cfg, req, copies, tmp_name, lp_result, fs>>

\* subprocess.run(cmd, timeout=30) starts lp on the temporary file
lp(r) ==
    /\ pc[r] = "lp"
    /\ calls' = [calls EXCEPT ![r] =
                    Append(@, lp_cmd(printer[r][1], copies[r], tmp_name[r][1]))]
    /\ pc' = [pc EXCEPT ![r] = "lp_wait"]
    /\ UNCHANGED <<cfg, req, copies, printer, tmp_name, lpstat_result, lp_result,
                   resp, fs>>

\* subprocess.run returns or raises; print_image returns; the response is built
lp_wait(r, Outs) ==
    /\ pc[r] = "lp_wait"
    /\ \E out \in Outs :
        /\ lp_result' = [lp_result EXCEPT ![r] = Some(out)]
        /\ resp' = [resp EXCEPT ![r] = print_response(print_image_result(out), copies[r])]
    /\ pc' = [pc EXCEPT ![r] = "finally"]
    /\ UNCHANGED <<cfg, req, copies, printer, tmp_name, lpstat_result, calls, fs>>

\* the file os.unlink(temp_path) removes
unlink_target(r) == tmp_name[r][1]

\* finally: os.unlink(temp_path), any exception of it swallowed
finally(r) ==
    /\ pc[r] = "finally"
    /\ \/ fs' = fs \ {unlink_target(r)}
       \/ UNCHANGED fs
    /\ pc' = [pc EXCEPT ![r] = "done"]
    /\ UNCHANGED <<cfg, req, copies, printer, tmp_name, lpstat_result, lp_result,
                   calls, resp>>

\* GET /printers
list_printers(r, Outs) ==
    /\ pc[r] = "list_printers"
    /\ \E out \in Outs :
        /\ lpstat_result' = [lpstat_result EXCEPT ![r] = Some(out)]
        /\ resp' = [resp EXCEPT ![r] =
                IF out.kind = "exit"
                THEN LET found == parse_printers(split(out.stdout, NL),
                                                 [printers |-> <<>>, default |-> None])
                     IN  Response(200, [printers |-> found.printers,
                                        default |-> found.default,
                                        configured |-> cfg.PRINTER_NAME])
                ELSE Response(500, [error |->
                        IF out.kind = "timeout"
                        THEN "Command '['lpstat', '-p', '-d']' timed out after 10 seconds"
                        ELSE out.error])]
    /\ calls' = [calls EXCEPT ![r] = Append(@, [prog |-> "lpstat", args |-> "-p -d"])]
    /\ pc' = [pc EXCEPT ![r] = "done"]
    /\ UNCHANGED <<cfg, req, copies, printer, tmp_name, lp_result, fs>>

\* the response is sent; the worker is free for the next request
respond(r) ==
    /\ pc[r] = "done"
    /\ pc' = [pc EXCEPT ![r] = "idle"]
    /\ req' = [req EXCEPT ![r] = NoRequest]
    /\ copies' = [copies EXCEPT ![r] = 0]
    /\ printer' = [printer EXCEPT ![r] = None]
    /\ tmp_name' = [tmp_name EXCEPT ![r] = None]
    /\ lpstat_result' = [lpstat_result EXCEPT ![r] = None]
    /\ lp_result' = [lp_result EXCEPT ![r] = None]
    /\ calls' = [calls EXCEPT ![r] = <<>>]
    /\ resp' = [resp EXCEPT ![r] = NoResponse]
    /\ UNCHANGED <<cfg, fs>>

\* one worker, every request and every outcome of the commands
Next ==
    \/ receive(1, Requests)
    \/ require_api_key(1)
    \/ health_check(1, LpstatDOutcomes)
    \/ print_endpoint(1)
    \/ NamedTemporaryFile(1)
    \/ save(1)
    \/ print_image(1, LpstatDOutcomes)
    \/ lp(1)
    \/ lp_wait(1, LpOutcomes)
    \/ finally(1)
    \/ list_printers(1, LpstatPOutcomes)
    \/ respond(1)

Spec == Init /\ [][Next]_vars

\* NProcs workers handling print requests concurrently
NextConc ==
    \E r \in Procs :
        \/ receive(r, ConcRequests)
        \/ require_api_key(r)
        \/ print_endpoint(r)
        \/ NamedTemporaryFile(r)
        \/ save(r)
        \/ print_image(r, ConcLpstatDOutcomes)
        \/ lp(r)
        \/ lp_wait(r, ConcLpOutcomes)
        \/ finally(r)
        \/ respond(r)

SpecConc == Init /\ [][NextConc]_vars

(***************************************************************************)
(* Properties.                                                             *)
(***************************************************************************)
Authenticated(r) == req[r].api_key = Some(cfg.API_KEY)

\* the commands request r has spawned so far, by program
LpCalls(r) == {i \in 1..Len(calls[r]) : calls[r][i].prog = "lp"}
LpstatCalls(r) == {i \in 1..Len(calls[r]) : calls[r][i].prog = "lpstat"}

\* the text after the final period of fn, lower-cased, is in the allow-list
HasAllowedExtension(fn) ==
    \E i \in 1..Len(fn) :
        /\ fn[i] = "."
        /\ \A j \in (i + 1)..Len(fn) : fn[j] # "."
        /\ lower(SubSeq(fn, i + 1, Len(fn))) \in ALLOWED_EXTENSIONS

\* request r got as far as print_image
ReachedSubmission(r) ==
    /\ req[r].endpoint = "/print"
    /\ \/ pc[r] \in {"lp", "lp_wait", "finally"}
       \/ pc[r] = "done" /\ tmp_name[r] # None /\ ~resp[r].unhandled

\* the run of a command failed: non-zero exit, timeout, or an error spawning it
CommandFailed(out) ==
    \/ out.kind \in {"timeout", "error"}
    \/ out.kind = "exit" /\ out.returncode # 0

\* C1: on /print and /printers a request without the X-API-Key header gets 401,
\* one whose header differs from the configured key gets 403 whatever the header
\* value is, one with the right key and a valid payload gets neither, and with
\* 401 or 403 no temporary file is made and no command is spawned.
C1_KeyDecidesStatus ==
    \A r \in Procs :
        (pc[r] = "done" /\ req[r].endpoint \in {"/print", "/printers"}) =>
            LET k == req[r].api_key
                st == resp[r].status
                valid == \/ req[r].endpoint = "/printers"
                         \/ /\ req[r].image # None
                            /\ HasAllowedExtension(req[r].image[1])
            IN  /\ k = None => st = 401
                /\ (k # None /\ k[1] # cfg.API_KEY) => st = 403
                /\ (k # None /\ k[1] = cfg.API_KEY /\ valid) => st \notin {401, 403}
                /\ st \in {401, 403} => (tmp_name[r] = None /\ calls[r] = <<>>)

\* C2: once a POST /print has finished, whatever happened after its temporary
\* file was made, that file does not exist.
C2_TempFileGone ==
    \A r \in Procs :
        (pc[r] = "done" /\ req[r].endpoint = "/print" /\ tmp_name[r] # None) =>
            tmp_name[r][1] \notin fs

\* C3: an authenticated POST /print whose file name has no allow-listed
\* extension never makes a temporary file, never spawns lp or lpstat, and is
\* answered 400.
C3_BadExtensionRejected ==
    \A r \in Procs :
        ( /\ req[r].endpoint = "/print"
          /\ Authenticated(r)
          /\ req[r].image # None
          /\ ~HasAllowedExtension(req[r].image[1]) ) =>
            /\ tmp_name[r] = None
            /\ calls[r] = <<>>
            /\ pc[r] \in {"require_api_key", "print_endpoint", "done"}
            /\ pc[r] = "done" => (resp[r].status = 400 /\ ~resp[r].unhandled)

C3_Witness ==
    \E r \in Procs :
        /\ pc[r] = "done"
        /\ Authenticated(r)
        /\ req[r].image = Some(<<"a", ".", "p", "n", "g", ".", "t", "x", "t">>)
        /\ resp[r].status = 400

\* C4: for a POST /print that reaches submission the copy count is
\* max(1, min(n, MAX_COPIES)) when the 'copies' field parses as the integer n and
\* 1 when it is absent or does not parse; it is the count given to lp -n and the
\* one echoed on success, it lies in 1..MAX_COPIES, and the answer is no 4xx.
C4_CopiesClamped ==
    \A r \in Procs :
        ReachedSubmission(r) =>
            LET f == req[r].copies
                n == int(f[1]).val
                expected ==
                    IF f = None \/ ~int(f[1]).ok THEN 1
                    ELSE IF n < 1 THEN 1
                    ELSE IF n > MAX_COPIES THEN MAX_COPIES
                    ELSE n
            IN  /\ copies[r] = expected
                /\ copies[r] \in 1..MAX_COPIES
                /\ \A i \in LpCalls(r) : calls[r][i].n = str(expected)
                /\ resp[r].status = 200 => resp[r].body.copies = expected
                /\ resp[r].status \notin 400..499

C4_Witness ==
    \E r \in Procs :
        /\ pc[r] = "done"
        /\ req[r].copies = Some(<<"-", "9">>)
        /\ resp[r].status = 200
        /\ resp[r].body.copies = 1
        /\ \E i \in LpCalls(r) : calls[r][i].n = <<"1">>

\* C5: whenever lp exits with code zero the job is reported as submitted (200,
\* success true) for every stdout: the job id is the token after
\* 'request id is' when that text is present, and null otherwise.
C5_ZeroExitIsSuccess ==
    \A r \in Procs :
        ( /\ pc[r] = "done"
          /\ req[r].endpoint = "/print"
          /\ lp_result[r] # None
          /\ lp_result[r][1].kind = "exit"
          /\ lp_result[r][1].returncode = 0 ) =>
            LET out == lp_result[r][1].stdout
            IN  /\ resp[r].status = 200
                /\ resp[r].body.success
                /\ resp[r].body.job_id =
                      IF Contains(out, RequestIdMarker)
                      THEN Some(tokens(split(out, RequestIdMarker)[2])[1])
                      ELSE None

\* C6: every failure of the lp run (non-zero exit, timeout, any other error) is
\* answered 500 with {success: false, error: message} by the handler itself;
\* for a non-zero exit the message is 'Print failed: ' followed by stderr.
C6_LpFailureIs500 ==
    \A r \in Procs :
        ( /\ pc[r] = "done"
          /\ req[r].endpoint = "/print"
          /\ lp_result[r] # None
          /\ CommandFailed(lp_result[r][1]) ) =>
            LET out == lp_result[r][1]
                message ==
                    IF out.kind = "exit" THEN "Print failed: " \o out.stderr
                    ELSE IF out.kind = "timeout" THEN "Print command timed out"
                    ELSE "Print error: " \o out.error
            IN  /\ resp[r].status = 500
                /\ ~resp[r].unhandled
                /\ resp[r].body = [success |-> FALSE, error |-> message]

C6_Witness ==
    \E r \in Procs :
        /\ pc[r] = "done"
        /\ lp_result[r] = Some(Exited(1, <<>>, "no such printer"))
        /\ resp[r].status = 500
        /\ resp[r].body = [success |-> FALSE, error |-> "Print failed: no such printer"]

C8_LpstatFailureIs500 ==
    \A r \in Procs :
        ( /\ pc[r] = "done"
          /\ req[r].endpoint = "/printers"
          /\ Authenticated(r)
          /\ lpstat_result[r] # None
          /\ CommandFailed(lpstat_result[r][1]) ) =>
            /\ resp[r].status = 500
            /\ DOMAIN resp[r].body = {"error"}

\* request r has a temporary file it has not cleaned up yet
Holding(r) ==
    tmp_name[r] # None /\ pc[r] \in {"save", "print_image", "lp", "lp_wait", "finally"}

C9_FilesApart ==
    /\ \A r, s \in Procs :
          (r # s /\ Holding(r) /\ Holding(s)) => tmp_name[r] # tmp_name[s]
    /\ \A r \in Procs : Holding(r) => tmp_name[r][1] \in fs
    /\ \A r \in Procs : \A i \in LpCalls(r) : calls[r][i].path = tmp_name[r][1]

C9_OwnCleanup ==
    \A f \in fs \ fs' :
        /\ \E r \in Procs :
              pc[r] = "finally" /\ pc'[r] = "done" /\ tmp_name[r] = Some(f)
        /\ \A s \in Procs : pc[s] \in {"lp", "lp_wait"} => tmp_name[s] # Some(f)

\* C9: under every interleaving of concurrent POST /print requests, the
\* temporary files of two requests in flight differ, a request's file exists
\* until its own cleanup, lp is given only the request's own file, and a file
\* is removed only by the cleanup of the request that made it, never while an
\* lp run on it is pending.
C9_NoInterference == [](C9_FilesApart) /\ [][C9_OwnCleanup]_vars

C9_Witness ==
    /\ pc[1] = "lp_wait"
    /\ pc[2] = "finally"
    /\ tmp_name[1] # tmp_name[2]
    /\ LpCalls(2) # {}

\* C10: the destination given to lp -d is the pinned printer name when one is
\* configured, and then lpstat is not run; otherwise it is the default
\* destination lpstat -d printed; when no printer is resolvable lp is not run
\* and the answer is 500 'No printer configured or found'; lp is never run with
\* an empty destination.
C10_Destination ==
    \A r \in Procs :
        ReachedSubmission(r) =>
            LET pinned == cfg.PRINTER_NAME # <<>>
                out == lpstat_result[r][1]
                default == strip(split(out.stdout, DefaultMarker)[2])
                found == /\ out.kind = "exit"
                         /\ out.returncode = 0
                         /\ Contains(out.stdout, DefaultMarker)
                         /\ default # <<>>
            IN  /\ pinned =>
                      /\ LpstatCalls(r) = {}
                      /\ \A i \in LpCalls(r) : calls[r][i].d = cfg.PRINTER_NAME
                /\ ~pinned =>
                      /\ Cardinality(LpstatCalls(r)) = 1
                      /\ lpstat_result[r] # None
                      /\ \A i \in LpCalls(r) : found /\ calls[r][i].d = default
                /\ \A i \in LpCalls(r) : calls[r][i].d # <<>>
                /\ (pinned \/ found) =>
                      Cardinality(LpCalls(r)) = IF pc[r] = "lp" THEN 0 ELSE 1
                /\ ~(pinned \/ found) =>
                      /\ LpCalls(r) = {}
                      /\ pc[r] \in {"finally", "done"}
                      /\ resp[r].status = 500
                      /\ resp[r].body =
                            [success |-> FALSE, error |-> "No printer configured or found"]

C10_Witness ==
    \E r \in Procs :
        /\ pc[r] = "done"
        /\ cfg.PRINTER_NAME = <<>>
        /\ lpstat_result[r] = Some(Exited(0, DefaultMarker \o <<" ">> \o HP \o NL, ""))
        /\ \E i \in LpCalls(r) : calls[r][i].d = HP
        /\ resp[r].status = 200

====
